---------------------------- MODULE Spec2Model ----------------------------
(***************************************************************************)
(* Model of the packstack plugins swift_600.py (ring builder and storage  *)
(* manifests) and serverprep_001.py (configuration groups).                *)
(*                                                                         *)
(* Python strings are sequences of symbols, so that split, strip, int and  *)
(* join are computed the way the interpreter computes them; a symbol is a  *)
(* character, or a literal word the code never looks inside.               *)
(* controller.CONF is a dict: a function whose DOMAIN is the set of keys   *)
(* present.                                                                *)
(***************************************************************************)
EXTENDS Integers, Sequences, FiniteSets, TLC

\* ------------------------------ bounds ---------------------------------
\* most hosts listed in CONFIG_SWIFT_STORAGE_HOSTS when the whole swift
\* sequence is run
MaxSeqHosts == 2
\* most hosts server_prep prepares in one run
MaxPrepHosts == 2
\* most hosts listed in the explored CONFIG_SWIFT_STORAGE_HOSTS strings
MaxHosts == 3
\* number of digits of CONFIG_SWIFT_STORAGE_ZONES explored
MaxZoneDigits == 1
\* how many times createbuildermanifest is run in one process
MaxRuns == 2

\* host names the explored strings list: three names, a name typed with
\* blanks around it, and the empty name of "a,,b" or of an empty answer
HostNames == {<<"a">>, <<"b">>, <<"c">>, <<" ", "a", " ">>, <<>>}
\* digits of the explored zone counts
ZoneDigits == {"0", "1", "2", "3"}

VARIABLES
    CONF,          \* controller.CONF
    pc,            \* position of the installer in its step sequence
    hostIter,      \* hosts the running for loop has still to visit
    devicename,    \* local of createbuildermanifest
    manifestfile,  \* local: name of the manifest file being built
    manifestdata,  \* local: directives added to the template so far
    appended,      \* log of the appendManifestFile(file, data) calls
    err,           \* exception that ended the run, "" if none
    runs,          \* completed or started runs of createbuildermanifest
    host_counts,   \* local of createstoragemanifest
    platform,      \* what is_all_in_one(config) and is_rhel() answer
    groups,        \* the groups handed to controller.addGroup, in order
    gidx,          \* index in groups of the next group to be reached
    plan,          \* per group reached: CONF as it stood, and the decision
    collected,     \* log of the parameter values stored into CONF
    steps,         \* the steps initSequences handed to controller.addSequence
    stepIdx,       \* index in steps of the step that runs next
    args,          \* arguments of the run_rhn_reg call
    server,        \* commands appended to the ScriptRunner and not yet run
    executed,      \* log of the scripts run: place, commands, masked values
    warnings,      \* hosts a logger.warn was issued for
    hostIdx,       \* index of the host server_prep is preparing
    env,           \* what the installer's machine answers: the hosts to
                   \* prepare, whether rdo-release is installed locally
    calls          \* log of the manage_rdo and manage_epel calls

planVars == <<platform, groups, gidx, plan, collected>>

seqVars == <<steps, stepIdx>>

prepVars == <<args, server, executed, warnings, hostIdx, env, calls>>

ringVars == <<hostIter, devicename, manifestfile, manifestdata, appended,
              runs, host_counts>>

vars == <<CONF, pc, err, ringVars, planVars, seqVars, prepVars>>

\* ------------------------- python primitives ---------------------------
\* dict assignment conf[k] = v
Put(conf, k, v) ==
    [x \in (DOMAIN conf) \cup {k} |-> IF x = k THEN v ELSE conf[x]]

\* index of the first "," of s, 0 if there is none
FirstComma(s) ==
    IF \E i \in 1..Len(s) : s[i] = ","
    THEN CHOOSE i \in 1..Len(s) : s[i] = "," /\ \A j \in 1..(i-1) : s[j] # ","
    ELSE 0

RECURSIVE Split(_)
\* s.split(","): always at least one field, empty fields are kept
Split(s) ==
    IF FirstComma(s) = 0 THEN <<s>>
    ELSE <<SubSeq(s, 1, FirstComma(s) - 1)>>
         \o Split(SubSeq(s, FirstComma(s) + 1, Len(s)))

RECURSIVE LStrip(_)
LStrip(s) ==
    IF s # <<>> /\ s[1] = " " THEN LStrip(Tail(s)) ELSE s

RECURSIVE RStrip(_)
RStrip(s) ==
    IF s # <<>> /\ s[Len(s)] = " " THEN RStrip(SubSeq(s, 1, Len(s) - 1)) ELSE s

\* s.strip()
Strip(s) == RStrip(LStrip(s))

DigitVal(c) ==
    CASE c = "0" -> 0 [] c = "1" -> 1 [] c = "2" -> 2 [] c = "3" -> 3
      [] c = "4" -> 4 [] c = "5" -> 5 [] c = "6" -> 6 [] c = "7" -> 7
      [] c = "8" -> 8 [] c = "9" -> 9

RECURSIVE ParseNat(_)
ParseNat(s) ==
    IF s = <<>> THEN 0
    ELSE ParseNat(SubSeq(s, 1, Len(s) - 1)) * 10 + DigitVal(s[Len(s)])

\* int(s) for a decimal string with an optional sign
ParseInt(s) ==
    IF s[1] = "-" THEN 0 - ParseNat(Tail(s)) ELSE ParseNat(s)

DigitChar(d) ==
    CASE d = 0 -> "0" [] d = 1 -> "1" [] d = 2 -> "2" [] d = 3 -> "3"
      [] d = 4 -> "4" [] d = 5 -> "5" [] d = 6 -> "6" [] d = 7 -> "7"
      [] d = 8 -> "8" [] d = 9 -> "9"

RECURSIVE IntToStr(_)
\* "%s" % n for n >= 0
IntToStr(n) ==
    IF n < 10 THEN <<DigitChar(n)>>
    ELSE IntToStr(n \div 10) \o <<DigitChar(n % 10)>>

\* a % b of python for a >= 0 and b # 0: the result has the sign of b
PyMod(a, b) ==
    IF b > 0 THEN a % b
    ELSE IF a % (0 - b) = 0 THEN 0 ELSE (a % (0 - b)) + b

\* ------------------------- createbuildermanifest -----------------------
ZoneOf_NoPlusOne(dev, zones) == PyMod(dev, zones)

ZoneOf_AfterIncrement(dev, zones) == PyMod(dev + 1, zones) + 1

ZoneOf_Division(dev, zones) ==
    IF zones > 0 THEN (dev \div zones) + 1 ELSE PyMod(dev, zones) + 1

\* zone = devicename % int(CONFIG_SWIFT_STORAGE_ZONES) + 1
ZoneOf(dev, zones) == PyMod(dev, zones) + 1

Directive(kind, host, port, dev, zone) ==
    [kind |-> kind, host |-> host, port |-> port, device |-> dev,
     zone |-> zone, weight |-> 10]

RingDirectives_SamePort(host, dev, zone) ==
    << Directive("ring_object_device", host, 6000, dev, zone),
       Directive("ring_container_device", host, 6000, dev, zone),
       Directive("ring_account_device", host, 6002, dev, zone) >>

\* the three directives one loop iteration adds to manifestdata
RingDirectives(host, dev, zone) ==
    << Directive("ring_object_device", host, 6000, dev, zone),
       Directive("ring_container_device", host, 6001, dev, zone),
       Directive("ring_account_device", host, 6002, dev, zone) >>

createbuildermanifest_begin_NoReset ==
    /\ pc = "idle"
    /\ runs < MaxRuns
    /\ runs' = runs + 1
    /\ LET builder == Split(CONF["CONFIG_SWIFT_PROXY_HOSTS"])[1] IN
         /\ CONF' = Put(CONF, "CONFIG_SWIFT_BUILDER_HOST", builder)
         /\ manifestfile' = <<builder, "_ring_swift.pp">>
    /\ manifestdata' = <<>>
    /\ hostIter' = Split(CONF["CONFIG_SWIFT_STORAGE_HOSTS"])
    /\ pc' = "builder_loop"
    /\ UNCHANGED <<devicename, appended, err, host_counts>>
    /\ UNCHANGED <<planVars, seqVars, prepVars>>

\* entry of createbuildermanifest up to the head of the for loop
createbuildermanifest_begin ==
    /\ pc = "idle"
    /\ runs < MaxRuns
    /\ runs' = runs + 1
    /\ LET builder == Split(CONF["CONFIG_SWIFT_PROXY_HOSTS"])[1] IN
         /\ CONF' = Put(CONF, "CONFIG_SWIFT_BUILDER_HOST", builder)
         /\ manifestfile' = <<builder, "_ring_swift.pp">>
    /\ manifestdata' = <<>>
    /\ devicename' = 0
    /\ hostIter' = Split(CONF["CONFIG_SWIFT_STORAGE_HOSTS"])
    /\ pc' = "builder_loop"
    /\ UNCHANGED <<appended, err, host_counts>>
    /\ UNCHANGED <<planVars, seqVars, prepVars>>

\* one iteration of the for loop; a zero zone count raises in the modulo
createbuildermanifest_loop ==
    /\ pc = "builder_loop"
    /\ hostIter # <<>>
    /\ LET host  == Head(hostIter)
           zones == ParseInt(CONF["CONFIG_SWIFT_STORAGE_ZONES"])
       IN IF zones = 0
          THEN /\ err' = "ZeroDivisionError"
               /\ pc' = "aborted"
               /\ UNCHANGED <<devicename, manifestdata, hostIter>>
          ELSE /\ devicename' = devicename + 1
               /\ manifestdata' = manifestdata \o
                     RingDirectives(host, devicename + 1,
                                    ZoneOf(devicename, zones))
               /\ hostIter' = Tail(hostIter)
               /\ UNCHANGED <<err, pc>>
    /\ UNCHANGED <<CONF, manifestfile, appended, runs, host_counts>>
    /\ UNCHANGED <<planVars, seqVars, prepVars>>

\* the loop is exhausted: appendManifestFile(manifestfile, manifestdata)
createbuildermanifest_end ==
    /\ pc = "builder_loop"
    /\ hostIter = <<>>
    /\ appended' = Append(appended, [step |-> "builder",
                                     file |-> manifestfile,
                                     data |-> manifestdata])
    /\ pc' = "idle"
    /\ UNCHANGED <<CONF, hostIter, devicename, manifestfile, manifestdata,
                   err, runs, host_counts>>
    /\ UNCHANGED <<planVars, seqVars, prepVars>>

\* ------------------------- createstoragemanifest -----------------------
RECURSIVE CountHosts(_, _)
\* host_counts after the first loop over hosts (a sequence of raw fields)
CountHosts(hosts, counts) ==
    IF hosts = <<>> THEN counts
    ELSE LET host == Strip(Head(hosts))
             old  == IF host \in DOMAIN counts THEN counts[host] ELSE 0
         IN CountHosts(Tail(hosts), Put(counts, host, old + 1))

RECURSIVE DeviceNames(_)
\* ','.join(["'%s'" % n for n in range(1, count + 1)])
DeviceNames(count) ==
    IF count = 0 THEN <<>>
    ELSE IF count = 1 THEN <<"'">> \o IntToStr(1) \o <<"'">>
    ELSE DeviceNames(count - 1) \o <<",", "'">> \o IntToStr(count) \o <<"'">>

EmptyDict == [x \in {} |-> 0]

\* the counting loop of createstoragemanifest
createstoragemanifest_count ==
    /\ pc = "idle"
    /\ host_counts' = CountHosts(Split(CONF["CONFIG_SWIFT_STORAGE_HOSTS"]),
                                 EmptyDict)
    /\ pc' = "storage_loop"
    /\ UNCHANGED <<CONF, hostIter, devicename, manifestfile, manifestdata,
                   appended, err, runs>>
    /\ UNCHANGED <<planVars, seqVars, prepVars>>

\* createstoragemanifest called after createbuildermanifest
createstoragemanifest_begin ==
    /\ runs >= 1
    /\ createstoragemanifest_count

\* one iteration over host_counts.items(), whose order is the dict's
createstoragemanifest_loop ==
    /\ pc = "storage_loop"
    /\ \E host \in DOMAIN host_counts :
         LET count == host_counts[host] IN
         /\ CONF' = Put(Put(CONF, "CONFIG_SWIFT_STORAGE_CURRENT", host),
                        "SWIFT_STORAGE_DEVICES", DeviceNames(count))
         /\ manifestfile' = <<host, "_swift.pp">>
         /\ appended' = Append(appended,
                 [step |-> "storage",
                  file |-> <<host, "_swift.pp">>,
                  data |-> [host |-> host,
                            devices |-> [n \in 1..count |-> n]]])
         /\ host_counts' = [h \in (DOMAIN host_counts) \ {host}
                               |-> host_counts[h]]
    /\ UNCHANGED <<pc, hostIter, devicename, manifestdata, err, runs>>
    /\ UNCHANGED <<planVars, seqVars, prepVars>>

createstoragemanifest_end ==
    /\ pc = "storage_loop"
    /\ DOMAIN host_counts = {}
    /\ pc' = "done"
    /\ UNCHANGED <<CONF, hostIter, devicename, manifestfile, manifestdata,
                   appended, err, runs, host_counts>>
    /\ UNCHANGED <<planVars, seqVars, prepVars>>

\* no run_rhn_reg call is under way
NoArgs == [x \in {} |-> 0]

\* ------------------------------ ring run -------------------------------
RECURSIVE Join(_)
\* ",".join(fields) for at least one field
Join(fields) ==
    IF Len(fields) = 1 THEN fields[1]
    ELSE fields[1] \o <<",">> \o Join(Tail(fields))

\* the comma separated strings an operator can answer with
HostInputs ==
    {Join(f) : f \in UNION {[1..n -> HostNames] : n \in 1..MaxHosts}}

ZoneInputs ==
    LET nat == UNION {[1..k -> ZoneDigits] : k \in 1..MaxZoneDigits}
    IN nat \cup {<<"-">> \o s : s \in nat}

ProxyInputs == {<<"a">>}

Init ==
    /\ \E hosts \in HostInputs, zones \in ZoneInputs,
          proxy \in ProxyInputs :
         CONF = [k \in {"CONFIG_OS_SWIFT_INSTALL", "CONFIG_SWIFT_PROXY_HOSTS",
                        "CONFIG_SWIFT_STORAGE_HOSTS",
                        "CONFIG_SWIFT_STORAGE_ZONES"} |->
                 CASE k = "CONFIG_OS_SWIFT_INSTALL" -> <<"y">>
                   [] k = "CONFIG_SWIFT_PROXY_HOSTS" -> proxy
                   [] k = "CONFIG_SWIFT_STORAGE_HOSTS" -> hosts
                   [] k = "CONFIG_SWIFT_STORAGE_ZONES" -> zones]
    /\ pc = "idle"
    /\ hostIter = <<>>
    /\ devicename = 0
    /\ manifestfile = <<>>
    /\ manifestdata = <<>>
    /\ appended = <<>>
    /\ err = ""
    /\ runs = 0
    /\ host_counts = EmptyDict
    /\ platform = [all_in_one |-> FALSE, rhel |-> FALSE]
    /\ groups = <<>>
    /\ gidx = 0
    /\ plan = <<>>
    /\ collected = <<>>
    /\ steps = <<>>
    /\ stepIdx = 0
    /\ args = NoArgs
    /\ server = <<>>
    /\ executed = <<>>
    /\ warnings = <<>>
    /\ hostIdx = 0
    /\ env = NoArgs
    /\ calls = <<>>

Next ==
    \/ createbuildermanifest_begin
    \/ createbuildermanifest_loop
    \/ createbuildermanifest_end
    \/ createstoragemanifest_begin
    \/ createstoragemanifest_loop
    \/ createstoragemanifest_end

Spec == Init /\ [][Next]_vars

\* --------------------------- ring properties ---------------------------
\* int(CONFIG_SWIFT_STORAGE_ZONES) of the run
Zones == ParseInt(CONF["CONFIG_SWIFT_STORAGE_ZONES"])

\* the fields of CONFIG_SWIFT_STORAGE_HOSTS, in input order
HostFields == Split(CONF["CONFIG_SWIFT_STORAGE_HOSTS"])

\* (host, device index, zone) of every device registered in data
RingDevices(data) ==
    [i \in 1..(Len(data) \div 3) |->
        <<data[3 * i - 2].host, data[3 * i - 2].device, data[3 * i - 2].zone>>]

BuilderCalls == {i \in 1..Len(appended) : appended[i].step = "builder"}

StorageCalls == {i \in 1..Len(appended) : appended[i].step = "storage"}

H1H1H2 == <<"a", ",", "a", ",", "b">>

H1H2H3 == <<"a", ",", "b", ",", "c">>

\* C1: devices are numbered 1, 2, 3, ... by one counter over the whole host
\* list, in input order, and device i gets zone ((i - 1) mod zone_count) + 1;
\* [h1,h1,h2] with 2 zones gives (h1,1,1),(h1,2,2),(h2,3,1) and [h1,h2,h3]
\* with 1 zone gives indices 1,2,3 all in zone 1.
C1_GlobalCounterAndZone ==
    /\ Zones >= 1 =>
         \A i \in 1..Len(RingDevices(manifestdata)) :
            RingDevices(manifestdata)[i] =
                <<HostFields[i], i, ((i - 1) % Zones) + 1>>
    /\ \A c \in BuilderCalls :
         /\ (CONF["CONFIG_SWIFT_STORAGE_HOSTS"] = H1H1H2 /\ Zones = 2) =>
               RingDevices(appended[c].data) =
                  << <<(<<"a">>), 1, 1>>, <<(<<"a">>), 2, 2>>,
                     <<(<<"b">>), 3, 1>> >>
         /\ (CONF["CONFIG_SWIFT_STORAGE_HOSTS"] = H1H2H3 /\ Zones = 1) =>
               RingDevices(appended[c].data) =
                  << <<(<<"a">>), 1, 1>>, <<(<<"b">>), 2, 1>>,
                     <<(<<"c">>), 3, 1>> >>
         /\ Zones >= 1 =>
               Len(RingDevices(appended[c].data)) = Len(HostFields)

C1_Witness ==
    /\ CONF["CONFIG_SWIFT_STORAGE_HOSTS"] = H1H1H2
    /\ Zones = 2
    /\ BuilderCalls # {}
    /\ Len(manifestdata) = 9

\* C2: for zone_count >= 1 every zone assigned to a device is in
\* 1..zone_count, whatever the host list.
C2_ZoneInRange ==
    Zones >= 1 =>
       /\ \A k \in 1..Len(manifestdata) : manifestdata[k].zone \in 1..Zones
       /\ \A c \in BuilderCalls : \A k \in 1..Len(appended[c].data) :
             appended[c].data[k].zone \in 1..Zones

C2_Witness ==
    /\ Zones = 2
    /\ BuilderCalls # {}
    /\ \E k \in 1..Len(manifestdata) :
          manifestdata[k].zone = 2 /\ manifestdata[k].device = 2
    /\ \E k \in 1..Len(manifestdata) :
          manifestdata[k].zone = 1 /\ manifestdata[k].device = 3

\* C3: with a zone count below 1 the ring assignment fails with
\* InvalidConfiguration and emits no ring device directive.
C3_InvalidZoneCount ==
    Zones < 1 =>
       /\ manifestdata = <<>>
       /\ BuilderCalls = {}
       /\ err \in {"", "InvalidConfiguration"}
       /\ (runs >= 1 /\ pc # "builder_loop") => err = "InvalidConfiguration"

\* (host, device name) pairs the ring builder registered
RingPairs ==
    UNION { {<<appended[c].data[k].host, appended[c].data[k].device>> :
                 k \in 1..Len(appended[c].data)} : c \in BuilderCalls }

\* (host, device name) pairs the storage manifests configure
StoragePairs ==
    UNION { {<<appended[c].data.host, appended[c].data.devices[n]>> :
                 n \in 1..Len(appended[c].data.devices)} : c \in StorageCalls }

\* C4: expanding the host->count mapping of createstoragemanifest gives the
\* same set of (host, device name) pairs as the devices createbuildermanifest
\* registered in the ring.
C4_StorageMatchesRing ==
    pc = "done" => RingPairs = StoragePairs

\* C5: every device gets exactly three directives, in the order object,
\* container, account, with the same host, device index and zone, ports 6000,
\* 6001, 6002 and weight 10.
C5_ThreeDirectivesPerDevice ==
    /\ Len(manifestdata) = 3 * devicename
    /\ pc = "builder_loop" /\ Zones # 0 =>
          devicename = Len(HostFields) - Len(hostIter)
    /\ \A i \in 1..devicename :
         LET o == manifestdata[3 * i - 2]
             c == manifestdata[3 * i - 1]
             a == manifestdata[3 * i]
         IN /\ o.kind = "ring_object_device" /\ o.port = 6000
            /\ c.kind = "ring_container_device" /\ c.port = 6001
            /\ a.kind = "ring_account_device" /\ a.port = 6002
            /\ o.weight = 10 /\ c.weight = 10 /\ a.weight = 10
            /\ o.device = i /\ c.device = i /\ a.device = i
            /\ c.host = o.host /\ a.host = o.host
            /\ c.zone = o.zone /\ a.zone = o.zone

C5_Witness ==
    /\ devicename = 2
    /\ Len(manifestdata) = 6
    /\ manifestdata[5].port = 6001
    /\ BuilderCalls # {}

\* C6: the zone assignment is periodic with period zone_count: devices i and
\* i + zone_count get the same zone whenever both indices are valid.
C6_ZonePeriodic ==
    Zones >= 1 =>
       \A i \in 1..Len(RingDevices(manifestdata)) :
          i + Zones <= Len(RingDevices(manifestdata)) =>
             RingDevices(manifestdata)[i][3] =
                RingDevices(manifestdata)[i + Zones][3]

C6_Witness ==
    /\ Zones = 2
    /\ Len(RingDevices(manifestdata)) = 3
    /\ RingDevices(manifestdata)[1][3] = 1
    /\ RingDevices(manifestdata)[2][3] = 2
    /\ RingDevices(manifestdata)[3][3] = 1

\* C7: two runs of the assignment on the same host list and zone count give
\* the same sequence of records, also when the second follows the first in the
\* same process.
C7_Deterministic ==
    /\ \A c1, c2 \in BuilderCalls :
          /\ appended[c1].data = appended[c2].data
          /\ appended[c1].file = appended[c2].file
    /\ \A c \in BuilderCalls :
          pc = "builder_loop" =>
             manifestdata = SubSeq(appended[c].data, 1, Len(manifestdata))

C7_Witness ==
    /\ Cardinality(BuilderCalls) = 2
    /\ \A c \in BuilderCalls : Len(appended[c].data) = 9

\* ------------------------ configuration groups -------------------------
\* python values a precondition can return or be matched against
PyStr(s) == [t |-> "str", v |-> s]

PyBool(b) == [t |-> "bool", v |-> b]

PyNone == [t |-> "none", v |-> <<>>]

\* x == y of python on those values
PyEq(x, y) == x.t = y.t /\ x.v = y.v

\* bool(x)
Truthy(x) ==
    CASE x.t = "none" -> FALSE
      [] x.t = "str"  -> x.v # <<>>
      [] x.t = "bool" -> x.v

\* config.get(k)
Get(config, k) == IF k \in DOMAIN config THEN PyStr(config[k]) ELSE PyNone

Param(name, default) == [CONF_NAME |-> name, DEFAULT_VALUE |-> default]

conf_params_Duplicate ==
    [g \in {"SERVERPREPARE", "RHEL", "RHSM", "RHSM_PROXY", "SATELLITE",
            "SATELLITE_PROXY"} |->
     CASE g = "SERVERPREPARE" ->
            << Param("CONFIG_USE_EPEL", <<"n">>), Param("CONFIG_REPO", <<>>) >>
       [] g = "RHEL" ->
            << Param("CONFIG_RH_USER", <<>>),
               Param("CONFIG_SATELLITE_URL", <<>>) >>
       [] g = "RHSM" ->
            << Param("CONFIG_RH_PW", <<>>),
               Param("CONFIG_RH_OPTIONAL", <<"y">>),
               Param("CONFIG_RH_PROXY", <<>>) >>
       [] g = "RHSM_PROXY" ->
            << Param("CONFIG_RH_PROXY_PORT", <<>>),
               Param("CONFIG_RH_PROXY_USER", <<>>),
               Param("CONFIG_RH_PROXY_PW", <<>>) >>
       [] g = "SATELLITE" ->
            << Param("CONFIG_SATELLITE_USER", <<>>),
               Param("CONFIG_SATELLITE_PW", <<>>),
               Param("CONFIG_SATELLITE_AKEY", <<>>),
               Param("CONFIG_SATELLITE_CACERT", <<>>),
               Param("CONFIG_SATELLITE_PROFILE", <<>>),
               Param("CONFIG_SATELLITE_FLAGS", <<>>),
               Param("CONFIG_RH_PROXY", <<>>) >>
       [] g = "SATELLITE_PROXY" ->
            << Param("CONFIG_SATELLITE_PROXY_USER", <<>>),
               Param("CONFIG_SATELLITE_PROXY_PW", <<>>) >>]

\* conf_params of serverprep: CONF_NAME and DEFAULT_VALUE of every parameter
conf_params ==
    [g \in {"SERVERPREPARE", "RHEL", "RHSM", "RHSM_PROXY", "SATELLITE",
            "SATELLITE_PROXY"} |->
     CASE g = "SERVERPREPARE" ->
            << Param("CONFIG_USE_EPEL", <<"n">>), Param("CONFIG_REPO", <<>>) >>
       [] g = "RHEL" ->
            << Param("CONFIG_RH_USER", <<>>),
               Param("CONFIG_SATELLITE_URL", <<>>) >>
       [] g = "RHSM" ->
            << Param("CONFIG_RH_PW", <<>>),
               Param("CONFIG_RH_OPTIONAL", <<"y">>),
               Param("CONFIG_RH_PROXY", <<>>) >>
       [] g = "RHSM_PROXY" ->
            << Param("CONFIG_RH_PROXY_PORT", <<>>),
               Param("CONFIG_RH_PROXY_USER", <<>>),
               Param("CONFIG_RH_PROXY_PW", <<>>) >>
       [] g = "SATELLITE" ->
            << Param("CONFIG_SATELLITE_USER", <<>>),
               Param("CONFIG_SATELLITE_PW", <<>>),
               Param("CONFIG_SATELLITE_AKEY", <<>>),
               Param("CONFIG_SATELLITE_CACERT", <<>>),
               Param("CONFIG_SATELLITE_PROFILE", <<>>),
               Param("CONFIG_SATELLITE_FLAGS", <<>>),
               Param("CONFIG_SATELLITE_PROXY", <<>>) >>
       [] g = "SATELLITE_PROXY" ->
            << Param("CONFIG_SATELLITE_PROXY_USER", <<>>),
               Param("CONFIG_SATELLITE_PROXY_PW", <<>>) >>]

\* paramsList of the swift plugin
paramsList ==
    << Param("CONFIG_SWIFT_PROXY_HOSTS",
             <<"l", "o", "c", "a", "l", "h", "o", "s", "t">>),
       Param("CONFIG_SWIFT_STORAGE_HOSTS",
             <<"l", "o", "c", "a", "l", "h", "o", "s", "t">>),
       Param("CONFIG_SWIFT_STORAGE_ZONES", <<"1">>),
       Param("CONFIG_SWIFT_STORAGE_REPLICAS", <<"1">>),
       Param("CONFIG_SWIFT_STORAGE_FSTYPE", <<"e", "x", "t", "4">>) >>

filled_rhsm_WrongKey(config) == PyBool(Truthy(Get(config, "CONFIG_RH_PW")))

filled_rhsm(config) == PyBool(Truthy(Get(config, "CONFIG_RH_USER")))

filled_rhsm_proxy(config) == PyBool(Truthy(Get(config, "CONFIG_RH_PROXY")))

filled_satellite(config) == PyBool(Truthy(Get(config, "CONFIG_SATELLITE_URL")))

filled_satellite_proxy(config) ==
    PyBool(Truthy(Get(config, "CONFIG_SATELLITE_PROXY")))

\* lambda x: 'yes'
lambda_yes(config) == PyStr(<<"y", "e", "s">>)

Group(name, kind, pre, match) ==
    [GROUP_NAME |-> name, PRE_KIND |-> kind, PRE_CONDITION |-> pre,
     PRE_CONDITION_MATCH |-> match]

conf_groups_Misordered(all_in_one, rhel) ==
    << Group("SERVERPREPARE", "callable", "lambda_yes",
             PyStr(<<"y", "e", "s">>)) >>
    \o IF (all_in_one /\ rhel) \/ ~all_in_one
       THEN << Group("RHSM", "callable", "filled_rhsm", PyBool(TRUE)),
               Group("RHEL", "callable", "lambda_yes",
                     PyStr(<<"y", "e", "s">>)),
               Group("RHSM_PROXY", "callable", "filled_rhsm_proxy",
                     PyBool(TRUE)),
               Group("SATELLITE", "callable", "filled_satellite",
                     PyBool(TRUE)),
               Group("SATELLITE_PROXY", "callable", "filled_satellite_proxy",
                     PyBool(TRUE)) >>
       ELSE << >>

\* conf_groups of serverprep, as extended for the platform
conf_groups(all_in_one, rhel) ==
    << Group("SERVERPREPARE", "callable", "lambda_yes",
             PyStr(<<"y", "e", "s">>)) >>
    \o IF (all_in_one /\ rhel) \/ ~all_in_one
       THEN << Group("RHEL", "callable", "lambda_yes",
                     PyStr(<<"y", "e", "s">>)),
               Group("RHSM", "callable", "filled_rhsm", PyBool(TRUE)),
               Group("RHSM_PROXY", "callable", "filled_rhsm_proxy",
                     PyBool(TRUE)),
               Group("SATELLITE", "callable", "filled_satellite",
                     PyBool(TRUE)),
               Group("SATELLITE_PROXY", "callable", "filled_satellite_proxy",
                     PyBool(TRUE)) >>
       ELSE << >>

\* groupDict of the swift plugin: the precondition is a flag name
groupDict ==
    Group("OSSWIFT", "flag", "CONFIG_OS_SWIFT_INSTALL", PyStr(<<"y">>))

\* the groups both plugins hand to controller.addGroup, in plugin order
DeclaredGroups(all_in_one, rhel) ==
    conf_groups(all_in_one, rhel) \o <<groupDict>>

\* the parameters registered with a group
ParamsOf(name) == IF name = "OSSWIFT" THEN paramsList ELSE conf_params[name]

\* calling a callable PRE_CONDITION
CallPre(name, config) ==
    CASE name = "lambda_yes"             -> lambda_yes(config)
      [] name = "filled_rhsm"            -> filled_rhsm(config)
      [] name = "filled_rhsm_proxy"      -> filled_rhsm_proxy(config)
      [] name = "filled_satellite"       -> filled_satellite(config)
      [] name = "filled_satellite_proxy" -> filled_satellite_proxy(config)

\* the planner's resolution of a precondition: a callable is called, a flag
\* name is looked up in the configuration
EvalPre(group, config) ==
    IF group.PRE_KIND = "callable"
    THEN CallPre(group.PRE_CONDITION, config)
    ELSE Get(config, group.PRE_CONDITION)

IsActive(group, config) ==
    PyEq(EvalPre(group, config), group.PRE_CONDITION_MATCH)

\* keys some precondition reads: the operator answers them empty or not
GateKeys == {"CONFIG_RH_USER", "CONFIG_SATELLITE_URL", "CONFIG_RH_PROXY",
             "CONFIG_SATELLITE_PROXY"}

KeysOf(params) == {params[i].CONF_NAME : i \in 1..Len(params)}

CollectedKeys == {collected[i].key : i \in 1..Len(collected)}

HasDuplicate(params) ==
    \/ \E i, j \in 1..Len(params) :
          i # j /\ params[i].CONF_NAME = params[j].CONF_NAME
    \/ KeysOf(params) \cap CollectedKeys # {}

RECURSIVE Store(_, _, _)
\* CONF after the values of params[from..] are stored
Store(config, entries, from) ==
    IF from > Len(entries) THEN config
    ELSE Store(Put(config, entries[from].key, entries[from].value),
               entries, from + 1)

\* the planner reaches the next group: it evaluates the precondition on CONF
\* as it stands and, if the group is active, the collection engine stores a
\* value for each of its parameters before the next group is reached
plan_group ==
    /\ pc = "plan"
    /\ gidx <= Len(groups)
    /\ LET group  == groups[gidx]
           params == ParamsOf(group.GROUP_NAME)
           active == IsActive(group, CONF)
       IN /\ plan' = Append(plan, [group |-> group.GROUP_NAME,
                                   conf |-> CONF, active |-> active])
          /\ IF ~active
             THEN /\ gidx' = gidx + 1
                  /\ UNCHANGED <<CONF, collected, pc, err>>
             ELSE IF HasDuplicate(params)
             THEN /\ err' = "InvalidConfiguration"
                  /\ pc' = "aborted"
                  /\ UNCHANGED <<CONF, collected, gidx>>
             ELSE \E filled \in SUBSET (GateKeys \cap KeysOf(params)) :
                    LET entries ==
                          [i \in 1..Len(params) |->
                             [group |-> group.GROUP_NAME,
                              key   |-> params[i].CONF_NAME,
                              value |-> IF params[i].CONF_NAME \in filled
                                        THEN <<"v">>
                                        ELSE params[i].DEFAULT_VALUE]]
                    IN /\ CONF' = Store(CONF, entries, 1)
                       /\ collected' = collected \o entries
                       /\ gidx' = gidx + 1
                       /\ UNCHANGED <<pc, err>>
    /\ UNCHANGED <<platform, groups, ringVars, seqVars, prepVars>>

\* every group has been reached
plan_end ==
    /\ pc = "plan"
    /\ gidx > Len(groups)
    /\ pc' = "planned"
    /\ UNCHANGED <<CONF, err, ringVars, planVars, seqVars, prepVars>>

Swap(seq, i, j) ==
    [k \in 1..Len(seq) |->
        IF k = i THEN seq[j] ELSE IF k = j THEN seq[i] ELSE seq[k]]

\* the declared order and every order that exchanges two groups
Orders(seq) == {seq} \cup {Swap(seq, i, j) : i, j \in 1..Len(seq)}

PlanInit ==
    /\ platform \in [all_in_one : BOOLEAN, rhel : BOOLEAN]
    /\ groups \in Orders(DeclaredGroups(platform.all_in_one, platform.rhel))
    /\ CONF \in {EmptyDict,
                 [k \in {"CONFIG_OS_SWIFT_INSTALL"} |-> <<"y">>],
                 [k \in {"CONFIG_OS_SWIFT_INSTALL"} |-> <<"n">>]}
    /\ pc = "plan"
    /\ gidx = 1
    /\ plan = <<>>
    /\ collected = <<>>
    /\ steps = <<>>
    /\ stepIdx = 0
    /\ args = NoArgs
    /\ server = <<>>
    /\ executed = <<>>
    /\ warnings = <<>>
    /\ hostIdx = 0
    /\ env = NoArgs
    /\ calls = <<>>
    /\ err = ""
    /\ hostIter = <<>>
    /\ devicename = 0
    /\ manifestfile = <<>>
    /\ manifestdata = <<>>
    /\ appended = <<>>
    /\ runs = 0
    /\ host_counts = EmptyDict

PlanNext == plan_group \/ plan_end

PlanSpec == PlanInit /\ [][PlanNext]_vars

\* --------------------- configuration group properties ------------------
\* key k holds a non-empty value in c
Filled(c, k) == k \in DOMAIN c /\ c[k] # <<>>

\* what the declarations say about when a group is to be active
Expected(g, c) ==
    CASE g \in {"SERVERPREPARE", "RHEL"} -> TRUE
      [] g = "RHSM"            -> Filled(c, "CONFIG_RH_USER")
      [] g = "RHSM_PROXY"      -> Filled(c, "CONFIG_RH_PROXY")
      [] g = "SATELLITE"       -> Filled(c, "CONFIG_SATELLITE_URL")
      [] g = "SATELLITE_PROXY" -> Filled(c, "CONFIG_SATELLITE_PROXY")
      [] g = "OSSWIFT"         -> /\ "CONFIG_OS_SWIFT_INSTALL" \in DOMAIN c
                                  /\ c["CONFIG_OS_SWIFT_INSTALL"] = <<"y">>

ActiveGroups == {plan[i].group : i \in {n \in 1..Len(plan) : plan[n].active}}

InactiveGroups ==
    {plan[i].group : i \in {n \in 1..Len(plan) : ~plan[n].active}}

\* C8: a group is active exactly when its precondition, evaluated on the
\* configuration as it stands when the group is reached in declaration order,
\* equals its PRE_CONDITION_MATCH; the parameters of an inactive group are
\* never collected and their CONF_NAME keys are not written.
C8_ActiveIffPrecondition ==
    \A i \in 1..Len(plan) :
       /\ plan[i].group = groups[i].GROUP_NAME
       /\ plan[i].active <=> Expected(plan[i].group, plan[i].conf)
       /\ ~plan[i].active =>
             /\ \A n \in 1..Len(collected) : collected[n].group # plan[i].group
             /\ KeysOf(ParamsOf(plan[i].group)) \cap DOMAIN CONF = {}
       /\ (plan[i].active /\ err = "") =>
             KeysOf(ParamsOf(plan[i].group)) \subseteq DOMAIN CONF

C8_Witness ==
    /\ pc = "planned"
    /\ groups = DeclaredGroups(platform.all_in_one, platform.rhel)
    /\ ActiveGroups = {"SERVERPREPARE", "RHEL", "RHSM", "OSSWIFT"}
    /\ InactiveGroups = {"RHSM_PROXY", "SATELLITE", "SATELLITE_PROXY"}
    /\ "CONFIG_SATELLITE_USER" \notin DOMAIN CONF

\* (A, B, key): B's precondition reads key, which only A's parameters write
Deps ==
    { <<"RHEL", "RHSM", "CONFIG_RH_USER">>,
      <<"RHEL", "SATELLITE", "CONFIG_SATELLITE_URL">>,
      <<"RHSM", "RHSM_PROXY", "CONFIG_RH_PROXY">>,
      <<"SATELLITE", "SATELLITE_PROXY", "CONFIG_SATELLITE_PROXY">> }

\* position of the group called name in seq, 0 if it is not there
Pos(seq, name) ==
    IF \E i \in 1..Len(seq) : seq[i].GROUP_NAME = name
    THEN CHOOSE i \in 1..Len(seq) : seq[i].GROUP_NAME = name
    ELSE 0

\* group g collected a non-empty value for key
CollectedFilled(g, key) ==
    \E n \in 1..Len(collected) :
       /\ collected[n].group = g
       /\ collected[n].key = key
       /\ collected[n].value # <<>>

\* C9: activation is order-sensitive: with A before B, B is activated when A
\* collects a non-empty value for the key B reads; with B before A, B is not
\* activated; the declared list puts every conditional group after the group
\* that writes the key it reads.
C9_OrderSensitive ==
    \A d \in Deps :
       LET declared == DeclaredGroups(platform.all_in_one, platform.rhel)
           a == Pos(groups, d[1])
           b == Pos(groups, d[2])
       IN /\ Pos(declared, d[1]) = 0 <=> Pos(declared, d[2]) = 0
          /\ Pos(declared, d[1]) # 0 =>
               /\ Pos(declared, d[1]) < Pos(declared, d[2])
               /\ (a < b /\ Len(plan) >= b /\ CollectedFilled(d[1], d[3]))
                     => d[2] \in ActiveGroups
               /\ b < a => d[2] \notin ActiveGroups

C9_Witness ==
    /\ pc = "planned"
    /\ Pos(groups, "RHSM") # 0
    /\ Pos(groups, "RHSM") < Pos(groups, "RHEL")
    /\ CollectedFilled("RHEL", "CONFIG_RH_USER")
    /\ "RHSM" \in InactiveGroups

GroupNames == <<"SERVERPREPARE", "RHEL", "RHSM", "RHSM_PROXY", "SATELLITE",
                "SATELLITE_PROXY", "OSSWIFT">>

RECURSIVE AllParams(_)
\* the parameters of the groups GroupNames[from..], one after the other
AllParams(from) ==
    IF from > Len(GroupNames) THEN <<>>
    ELSE ParamsOf(GroupNames[from]) \o AllParams(from + 1)

\* C10: no two parameters declared by the two plugins share a CONF_NAME, so
\* collecting one parameter never overwrites the value collected for another,
\* and the planner never meets a duplicate to reject.
C10_ConfNameUnique ==
    /\ \A i, j \in 1..Len(AllParams(1)) :
          i # j => AllParams(1)[i].CONF_NAME # AllParams(1)[j].CONF_NAME
    /\ \A i, j \in 1..Len(collected) :
          i # j => collected[i].key # collected[j].key
    /\ \A i \in 1..Len(collected) :
          /\ collected[i].key \in DOMAIN CONF
          /\ CONF[collected[i].key] = collected[i].value
    /\ err # "InvalidConfiguration"

C10_Witness ==
    /\ pc = "planned"
    /\ Cardinality(ActiveGroups) = 7
    /\ Len(collected) = 24
    /\ Cardinality(CollectedKeys) = 24

\* ------------------------------ run_rhn_reg ----------------------------
RECURSIVE RStripSlash(_)
\* s.rstrip('/')
RStripSlash(s) ==
    IF s # <<>> /\ s[Len(s)] = "/"
    THEN RStripSlash(SubSeq(s, 1, Len(s) - 1)) ELSE s

\* s.endswith('/XMLRPC')
EndsWithXmlrpc(s) == s # <<>> /\ s[Len(s)] = "/XMLRPC"

\* the --serverUrl value: the url as given if it ends in /XMLRPC once its
\* trailing slashes are dropped, else the url followed by /XMLRPC
ServerUrl(server_url) ==
    IF EndsWithXmlrpc(RStripSlash(server_url)) /\ server_url # <<>>
    THEN server_url
    ELSE server_url \o <<"/XMLRPC">>

\* index of the last "/" of s, 0 if there is none
LastSlash(s) ==
    IF \E i \in 1..Len(s) : s[i] = "/"
    THEN CHOOSE i \in 1..Len(s) :
            s[i] = "/" /\ \A j \in (i + 1)..Len(s) : s[j] # "/"
    ELSE 0

\* os.path.basename(s)
Basename(s) == SubSeq(s, LastSlash(s) + 1, Len(s))

RECURSIVE JoinSpace(_)
\* ' '.join(words)
JoinSpace(words) ==
    IF words = <<>> THEN <<>>
    ELSE IF Len(words) = 1 THEN words[1]
    ELSE words[1] \o <<" ">> \o JoinSpace(Tail(words))

Credentials_KeyAndUser(activation_key, username, password) ==
    IF activation_key = <<>> /\ username = <<>>
    THEN [raise |-> TRUE, cmd |-> <<>>, mask |-> <<>>]
    ELSE [raise |-> FALSE,
          cmd   |-> (IF activation_key # <<>>
                     THEN << <<"--activationkey">>, activation_key >>
                     ELSE <<>>)
                    \o (IF username # <<>>
                        THEN << <<"--username">>, username >>
                        ELSE <<>>)
                    \o (IF username # <<>> /\ password # <<>>
                        THEN << <<"--password">>, password >>
                        ELSE <<>>),
          mask  |-> IF username # <<>> /\ password # <<>>
                    THEN <<password>> ELSE <<>>]

\* the if / elif / else on activation_key and username: what is added to
\* cmd and to mask, or the InstallError
Credentials(activation_key, username, password) ==
    IF activation_key # <<>>
    THEN [raise |-> FALSE,
          cmd   |-> << <<"--activationkey">>, activation_key >>,
          mask  |-> <<>>]
    ELSE IF username # <<>>
    THEN [raise |-> FALSE,
          cmd   |-> << <<"--username">>, username >>
                    \o (IF password # <<>>
                        THEN << <<"--password">>, password >> ELSE <<>>),
          mask  |-> IF password # <<>> THEN <<password>> ELSE <<>>]
    ELSE [raise |-> TRUE, cmd |-> <<>>, mask |-> <<>>]

\* "--%s" % i for every flag
FlagOptions(flags) == [i \in 1..Len(flags) |-> <<"--">> \o flags[i]]

\* an optional "--name value" pair
Option(name, value) == IF value # <<>> THEN << <<name>>, value >> ELSE <<>>

\* run_rhn_reg(host, server_url, **args); the script may fail on the host
run_rhn_reg ==
    /\ pc = "rhn_call"
    /\ LET cred     == Credentials(args.activation_key, args.username,
                                   args.password)
           location == <<"/etc/sysconfig/rhn/">> \o Basename(args.cacert)
           wget     == IF args.cacert # <<>> /\ ~args.isfile
                       THEN << <<"ls ">> \o location
                               \o <<" &> /dev/null && echo -n \"\" || ">>
                               \o <<"wget -nd --no-check-certificate ">>
                               \o <<"--timeout=30 --tries=3 -O \"">>
                               \o location \o <<"\" \"">> \o args.cacert
                               \o <<"\"">> >>
                       ELSE <<>>
           flags    == (IF args.flags # <<>> THEN args.flags ELSE <<>>)
                       \o << <<"force">> >>
           cmd      == << <<"/usr/sbin/rhnreg_ks">>, <<"--serverUrl">>,
                          ServerUrl(args.server_url) >>
                       \o cred.cmd
                       \o (IF args.cacert # <<>>
                           THEN << <<"--sslCACert">>, location >> ELSE <<>>)
                       \o Option("--profilename", args.profile_name)
                       \o Option("--proxy", args.proxy_host)
                       \o Option("--proxyUser", args.proxy_user)
                       \o Option("--proxyPassword", args.proxy_pass)
                       \o FlagOptions(flags)
           mask     == cred.mask
                       \o (IF args.proxy_pass # <<>>
                           THEN <<args.proxy_pass>> ELSE <<>>)
           script   == wget \o << JoinSpace(cmd), <<"yum clean metadata">> >>
       IN IF cred.raise
          THEN /\ err' = "InstallError"
               /\ UNCHANGED <<args, server, executed>>
          ELSE /\ server' = server \o script
               /\ executed' = Append(executed,
                                 [place |-> args.host,
                                  script |-> server \o script,
                                  mask |-> mask])
               \* flags.append('force') changes the caller's list unless
               \* it was empty
               /\ args' = [args EXCEPT !.flags =
                              IF args.flags # <<>> THEN flags ELSE args.flags]
               /\ \E failed \in BOOLEAN :
                     err' = IF failed THEN "ScriptRuntimeError" ELSE ""
    /\ pc' = "rhn_done"
    /\ UNCHANGED <<CONF, warnings, hostIdx, env, calls, ringVars, planVars,
                   seqVars>>

\* either value an optional string argument is explored with
Opt(word) == {<<>>, <<word>>}

RhnInit ==
    /\ args \in [host         : {<<"a">>},
                 server_url   : {<<"s">>, <<"s", "/XMLRPC">>,
                                 <<"s", "/XMLRPC", "/">>},
                 username     : Opt("user"),
                 password     : Opt("pw"),
                 cacert       : {<<>>, <<"d", "/", "ca.pem">>},
                 isfile       : BOOLEAN,
                 activation_key : Opt("key"),
                 profile_name : Opt("profile"),
                 proxy_host   : Opt("proxy"),
                 proxy_user   : Opt("proxyuser"),
                 proxy_pass   : Opt("proxypw"),
                 flags        : {<<>>, << <<"novirtinfo">> >>}]
    /\ pc = "rhn_call"
    /\ CONF = EmptyDict
    /\ err = ""
    /\ server = <<>>
    /\ executed = <<>>
    /\ warnings = <<>>
    /\ hostIdx = 0
    /\ env = NoArgs
    /\ calls = <<>>
    /\ hostIter = <<>>
    /\ devicename = 0
    /\ manifestfile = <<>>
    /\ manifestdata = <<>>
    /\ appended = <<>>
    /\ runs = 0
    /\ host_counts = EmptyDict
    /\ platform = [all_in_one |-> FALSE, rhel |-> FALSE]
    /\ groups = <<>>
    /\ gidx = 0
    /\ plan = <<>>
    /\ collected = <<>>
    /\ steps = <<>>
    /\ stepIdx = 0

RhnNext == run_rhn_reg

RhnSpec == RhnInit /\ [][RhnNext]_vars

\* the rhnreg_ks command lines appended to the ScriptRunner
RhnCommands ==
    {i \in 1..Len(server) : server[i][1] = "/usr/sbin/rhnreg_ks"}

\* option opt is in command line c and is followed by the words of value
Carries(c, opt, value) ==
    \E i \in 1..Len(c) :
       /\ c[i] = opt
       /\ i + 1 + Len(value) <= Len(c)
       /\ c[i + 1] = " "
       /\ SubSeq(c, i + 2, i + 1 + Len(value)) = value

HasOption(c, opt) == \E i \in 1..Len(c) : c[i] = opt

\* C11: run_rhn_reg registers only with an activation key or a username:
\* with neither it raises InstallError before any command is appended or
\* run; with a key the command carries --activationkey and no --username or
\* --password, also when a username is given; with only a username it carries
\* --username, and --password exactly when a password is given.
C11_RhnCredentials ==
    pc = "rhn_done" =>
       LET key  == args.activation_key # <<>>
           user == args.username # <<>>
       IN /\ (~key /\ ~user) =>
                err = "InstallError" /\ server = <<>> /\ executed = <<>>
          /\ (key \/ user) =>
                /\ err # "InstallError"
                /\ Cardinality(RhnCommands) = 1
                /\ Len(executed) = 1
                /\ executed[1].script = server
          /\ \A i \in RhnCommands :
                /\ key =>
                     /\ Carries(server[i], "--activationkey",
                                args.activation_key)
                     /\ ~HasOption(server[i], "--username")
                     /\ ~HasOption(server[i], "--password")
                /\ (~key /\ user) =>
                     /\ Carries(server[i], "--username", args.username)
                     /\ ~HasOption(server[i], "--activationkey")
                     /\ HasOption(server[i], "--password")
                           <=> args.password # <<>>
                     /\ args.password # <<>> =>
                           Carries(server[i], "--password", args.password)

C11_Witness ==
    /\ pc = "rhn_done"
    /\ args.activation_key # <<>>
    /\ args.username # <<>>
    /\ args.password # <<>>
    /\ Cardinality(RhnCommands) = 1
    /\ \A i \in RhnCommands : ~HasOption(server[i], "--username")

\* ------------------------------ server_prep ----------------------------
\* release.split('.')[0]
ReleaseVer(release) ==
    IF \E i \in 1..Len(release) : release[i] = "."
    THEN SubSeq(release, 1,
                (CHOOSE i \in 1..Len(release) :
                    release[i] = "." /\ \A j \in 1..(i - 1) : release[j] # ".")
                - 1)
    ELSE release

IsSpace(c) == c \in {" ", "\t", "\n"}

\* first index from i on that holds no white space, Len(out) + 1 if none
SkipSpace(out, i) ==
    IF \E j \in i..Len(out) : ~IsSpace(out[j])
    THEN CHOOSE j \in i..Len(out) :
            ~IsSpace(out[j]) /\ \A k \in i..(j - 1) : IsSpace(out[k])
    ELSE Len(out) + 1

\* re.search('enabled\s*\=\s*%(enabled)s', out) finds something
EnabledMatch(out, enabled) ==
    \E i \in 1..Len(out) :
       /\ out[i] = "enabled"
       /\ LET j == SkipSpace(out, i + 1) IN
            /\ j <= Len(out)
            /\ out[j] = "="
            /\ LET k == SkipSpace(out, j + 1) IN
                 k <= Len(out) /\ out[k] \in enabled

\* a script run by a ScriptRunner or by utils.execute, and how it went
Run(by, place, script, raised, out) ==
    [by |-> by, place |-> place, script |-> script, raised |-> raised,
     out |-> out]

Call(fn, host, flag, end) ==
    [fn |-> fn, host |-> host, flag |-> flag, end |-> end]

\* the script that installs epel-release
EpelInstallScript(releasever) ==
    << <<"REPOFILE=$(mktemp)">>,
       <<"cat /etc/yum.conf > $REPOFILE">>,
       <<"echo -e '[packstack-epel]\nname=packstack-epel\nenabled=1\n">>
          \o <<"mirrorlist=https://mirrors.fedoraproject.org/metalink?">>
          \o <<"repo=epel-">> \o releasever
          \o <<"&arch=$basearch' >> $REPOFILE">>,
       <<"( rpm -q --whatprovides epel-release || yum install -y --nogpg ">>
          \o <<"-c $REPOFILE epel-release ) || true">>,
       <<"rm -rf $REPOFILE">> >>

EpelToggle_AlwaysDisable(flag) ==
    [cmd |-> "disable", enabled |-> {"0", "False"}]

\* cmd and enabled according to CONFIG_USE_EPEL
EpelToggle(flag) ==
    IF flag = <<"y">>
    THEN [cmd |-> "enable", enabled |-> {"1", "True"}]
    ELSE [cmd |-> "disable", enabled |-> {"0", "False"}]

\* the script that enables or disables the epel repository
EpelToggleScript(cmd) ==
    << <<"rpm -q yum-utils || yum -y install yum-utils">>,
       <<"yum-config-manager --", cmd, " epel">> >>

\* what yum-config-manager may print about the repository
EpelOutputs ==
    { <<>>,
      <<"[epel]", "\n", "enabled", " ", "=", " ", "1">>,
      <<"[epel]", "\n", "enabled", "=", "True">>,
      <<"[epel]", "\n", "enabled", " ", "=", " ", "0">>,
      <<"[epel]", "\n", "enabled", "=", "False">> }

RdoConfig_NoOverride(config) == config

\* config['CONFIG_USE_EPEL'] = 'y'
RdoConfig(config) == Put(config, "CONFIG_USE_EPEL", <<"y">>)

\* the host server_prep is preparing
PrepHost == env.hosts[hostIdx]

\* entry of server_prep up to the head of the loop over filtered_hosts
server_prep_begin ==
    /\ pc = "prep"
    /\ hostIdx' = 1
    /\ pc' = "prep_host"
    /\ UNCHANGED <<CONF, err, args, server, executed, warnings, env, calls,
                   ringVars, planVars, seqVars>>

\* head of the loop body: no registration is configured in the explored
\* runs (rh_username and sat_url are empty), then the yum-utils script runs
server_prep_host ==
    /\ pc = "prep_host"
    /\ hostIdx <= Len(env.hosts)
    /\ ~Truthy(Get(CONF, "CONFIG_RH_USER")) \/ ~platform.rhel
    /\ Strip(CONF["CONFIG_SATELLITE_URL"]) = <<>> \/ ~platform.rhel
    /\ \E raised \in BOOLEAN :
         /\ executed' = Append(executed,
               Run("server_prep", PrepHost,
                   << <<"rpm -q --whatprovides yum-utils || ">>
                         \o <<"yum install -y yum-utils">> >>
                   \o (IF platform.rhel
                       THEN << <<"yum list available rhos-log-collector && ">>
                               \o <<"yum -y install rhos-log-collector || ">>
                               \o <<"echo \"no rhos-log-collector available\"">> >>
                       ELSE <<>>),
                   raised, <<>>))
         /\ IF raised
            THEN err' = "ScriptRuntimeError" /\ pc' = "aborted"
            ELSE err' = err /\ pc' = "prep_rdo"
    /\ UNCHANGED <<CONF, args, server, warnings, hostIdx, env, calls,
                   ringVars, planVars, seqVars>>

\* manage_rdo(hostname, config)
manage_rdo ==
    /\ pc = "prep_rdo"
    /\ LET flag  == CONF["CONFIG_USE_EPEL"]
           query == Run("manage_rdo", <<"local">>,
                        << <<"rpm -q rdo-release --qf=">>
                           \o <<"'%{version}-%{release}.%{arch}\n'">> >>,
                        ~env.rdo_release, <<>>)
       IN IF ~env.rdo_release
          THEN \* ExecuteRuntimeError: RDO is not installed locally
               /\ executed' = Append(executed, query)
               /\ calls' = Append(calls,
                              Call("manage_rdo", PrepHost, flag, "return"))
               /\ pc' = "prep_epel"
               /\ UNCHANGED <<CONF, err>>
          ELSE /\ CONF' = RdoConfig(CONF)
               /\ \E matched \in BOOLEAN, installFails \in BOOLEAN,
                     enableFails \in BOOLEAN, confirmed \in BOOLEAN :
                    LET install == Run("manage_rdo", PrepHost,
                                     << <<"(rpm -q 'rdo-release-">>
                                        \o <<"version">>
                                        \o <<"' || yum install -y --nogpg ">>
                                        \o <<"rdo_url">>
                                        \o <<") || true">> >>,
                                     installFails, <<>>)
                        enable  == Run("manage_rdo", PrepHost,
                                     << <<"yum-config-manager --enable ">>
                                        \o <<"openstack-">> \o <<"version">> >>,
                                     enableFails,
                                     IF confirmed
                                     THEN <<"enabled", " ", "=", " ", "1">>
                                     ELSE <<>>)
                        end == IF ~matched THEN "AttributeError"
                               ELSE IF installFails \/ enableFails
                                       \/ ~EnabledMatch(enable.out,
                                                        {"1", "True"})
                               THEN "ScriptRuntimeError"
                               ELSE "return"
                    IN \* one choice per outcome
                       /\ ~matched => ~installFails /\ ~enableFails
                                      /\ ~confirmed
                       /\ installFails => ~enableFails /\ ~confirmed
                       /\ enableFails => ~confirmed
                       /\ executed' = executed \o <<query>>
                            \o (IF matched THEN <<install>> ELSE <<>>)
                            \o (IF matched /\ ~installFails
                                THEN <<enable>> ELSE <<>>)
                       /\ calls' = Append(calls,
                                     Call("manage_rdo", PrepHost, flag, end))
                       /\ IF end = "return"
                          THEN err' = err /\ pc' = "prep_epel"
                          ELSE err' = end /\ pc' = "aborted"
    /\ UNCHANGED <<args, server, warnings, hostIdx, env, ringVars, planVars,
                   seqVars>>

\* manage_epel(hostname, config)
manage_epel ==
    /\ pc = "prep_epel"
    /\ LET details == CONF["HOST_DETAILS"][PrepHost]
           flag    == CONF["CONFIG_USE_EPEL"]
           toggle  == EpelToggle(flag)
       IN IF details.os \in {<<"Fedora">>, <<"Unknown">>}
          THEN /\ calls' = Append(calls,
                              Call("manage_epel", PrepHost, flag, "return"))
               /\ pc' = "prep_finish"
               /\ UNCHANGED <<executed, warnings, err>>
          ELSE \E installFails \in BOOLEAN, toggleFails \in BOOLEAN,
                  out \in EpelOutputs :
                 LET install == Run("manage_epel", PrepHost,
                                    EpelInstallScript(
                                       ReleaseVer(details.release)),
                                    installFails, <<>>)
                     switch  == Run("manage_epel", PrepHost,
                                    EpelToggleScript(toggle.cmd),
                                    toggleFails, out)
                     match   == EnabledMatch(out, toggle.enabled)
                     end == IF installFails \/ toggleFails
                            THEN "ScriptRuntimeError"
                            ELSE IF match THEN "return"
                            ELSE IF toggle.cmd = "enable"
                            THEN "ScriptRuntimeError"
                            ELSE "return"
                 IN \* one choice per outcome
                    /\ installFails => flag = <<"y">> /\ ~toggleFails
                                       /\ out = <<>>
                    /\ toggleFails => out = <<>>
                    /\ executed' = executed
                         \o (IF flag = <<"y">> THEN <<install>> ELSE <<>>)
                         \o (IF ~installFails THEN <<switch>> ELSE <<>>)
                    /\ warnings' =
                         IF ~installFails /\ ~toggleFails /\ ~match
                            /\ toggle.cmd # "enable"
                         THEN Append(warnings, PrepHost) ELSE warnings
                    /\ calls' = Append(calls,
                                  Call("manage_epel", PrepHost, flag, end))
                    /\ IF end = "return"
                       THEN err' = err /\ pc' = "prep_finish"
                       ELSE err' = end /\ pc' = "aborted"
    /\ UNCHANGED <<CONF, args, server, hostIdx, env, ringVars, planVars,
                   seqVars>>

\* the repository file commands of CONFIG_REPO, one per url
RepoCommands(repo) ==
    IF Strip(repo) = <<>> THEN <<>>
    ELSE LET urls == Split(Strip(repo)) IN
         [i \in 1..Len(urls) |->
            <<"echo \"[packstack_">> \o IntToStr(i - 1)
            \o <<"]\nname=packstack_">> \o IntToStr(i - 1)
            \o <<"\nbaseurl=">> \o urls[i]
            \o <<"\nenabled=1\npriority=1\ngpgcheck=0\"">>
            \o <<" > /etc/yum.repos.d/packstack_">> \o IntToStr(i - 1)
            \o <<".repo">>]

\* end of the loop body: priorities, CONFIG_REPO, yum clean metadata
server_prep_finish ==
    /\ pc = "prep_finish"
    /\ \E raised \in BOOLEAN :
         /\ executed' = Append(executed,
               Run("server_prep", PrepHost,
                   << <<"yum install -y yum-plugin-priorities || true">>,
                      <<"rpm -q epel-release && yum-config-manager ">>
                         \o <<"--setopt=\"rhel-server-ost-6-4-rpms">>
                         \o <<".priority=1\" --save ">>
                         \o <<"rhel-server-ost-6-4-rpms">> >>
                   \o RepoCommands(CONF["CONFIG_REPO"])
                   \o << <<"yum clean metadata">> >>,
                   raised, <<>>))
         /\ IF raised
            THEN /\ err' = "ScriptRuntimeError" /\ pc' = "aborted"
                 /\ UNCHANGED hostIdx
            ELSE /\ err' = err
                 /\ hostIdx' = hostIdx + 1
                 /\ pc' = IF hostIdx < Len(env.hosts)
                          THEN "prep_host" ELSE "prep_done"
    /\ UNCHANGED <<CONF, args, server, warnings, env, calls, ringVars,
                   planVars, seqVars>>

\* the names of the hosts to prepare
PrepHostNames == [i \in 1..MaxPrepHosts |-> <<"h", IntToStr(i)[1]>>]

PrepInit ==
    /\ \E n \in 1..MaxPrepHosts, rdo \in BOOLEAN, epel \in {<<"y">>, <<"n">>},
          repo \in {<<>>, <<"r", ",", "s">>} :
         /\ env = [hosts |-> SubSeq(PrepHostNames, 1, n),
                   rdo_release |-> rdo, configured |-> epel]
         /\ \E os \in [{PrepHostNames[i] : i \in 1..n} ->
                          {<<"Fedora">>, <<"Unknown">>, <<"CentOS">>}] :
              CONF = [k \in {"CONFIG_USE_EPEL", "CONFIG_REPO", "CONFIG_RH_USER",
                             "CONFIG_SATELLITE_URL", "HOST_DETAILS"} |->
                      CASE k = "CONFIG_USE_EPEL" -> epel
                        [] k = "CONFIG_REPO" -> repo
                        [] k = "CONFIG_RH_USER" -> <<>>
                        [] k = "CONFIG_SATELLITE_URL" -> <<>>
                        [] k = "HOST_DETAILS" ->
                             [h \in {PrepHostNames[i] : i \in 1..n} |->
                                [os |-> os[h],
                                 release |-> <<"6", ".", "5">>]]]
    /\ platform \in [all_in_one : {FALSE}, rhel : BOOLEAN]
    /\ pc = "prep"
    /\ err = ""
    /\ args = NoArgs
    /\ server = <<>>
    /\ executed = <<>>
    /\ warnings = <<>>
    /\ hostIdx = 0
    /\ calls = <<>>
    /\ hostIter = <<>>
    /\ devicename = 0
    /\ manifestfile = <<>>
    /\ manifestdata = <<>>
    /\ appended = <<>>
    /\ runs = 0
    /\ host_counts = EmptyDict
    /\ groups = <<>>
    /\ gidx = 0
    /\ plan = <<>>
    /\ collected = <<>>
    /\ steps = <<>>
    /\ stepIdx = 0

PrepNext ==
    \/ server_prep_begin
    \/ server_prep_host
    \/ manage_rdo
    \/ manage_epel
    \/ server_prep_finish

PrepSpec == PrepInit /\ [][PrepNext]_vars

\* ------------------------- claims on manage_epel -----------------------
\* positions in the call log of the calls of fn
CallsOf(fn) == {i \in 1..Len(calls) : calls[i].fn = fn}

\* the scripts fn ran on host
RunsOf(fn, host) ==
    {i \in 1..Len(executed) :
        executed[i].by = fn /\ executed[i].place = host}

\* fn ran a script on host that holds the command
RanCommand(fn, host, command) ==
    \E i \in RunsOf(fn, host) :
       \E j \in 1..Len(executed[i].script) : executed[i].script[j] = command

EnableEpel == <<"yum-config-manager --", "enable", " epel">>
DisableEpel == <<"yum-config-manager --", "disable", " epel">>

\* the EPEL install script of manage_epel failed on host
EpelInstallFailed(host) ==
    \E i \in RunsOf("manage_epel", host) :
       /\ executed[i].raised
       /\ \A j \in 1..Len(executed[i].script) :
             executed[i].script[j] \notin {EnableEpel, DisableEpel}

\* yum-config-manager ran on host and its output does not show a value
\* of `wanted` for enabled
Unconfirmed(host, command, wanted) ==
    \E i \in RunsOf("manage_epel", host) :
       /\ \E j \in 1..Len(executed[i].script) :
             executed[i].script[j] = command
       /\ ~executed[i].raised
       /\ ~EnabledMatch(executed[i].out, wanted)

NoEpelHost(host) ==
    CONF["HOST_DETAILS"][host].os \in {<<"Fedora">>, <<"Unknown">>}

\* what C12 says about the error paths and the skipped hosts
EpelOutcome(c) ==
    /\ NoEpelHost(c.host) =>
          RunsOf("manage_epel", c.host) = {} /\ c.end = "return"
    /\ Unconfirmed(c.host, EnableEpel, {"1", "True"}) =>
          c.end = "ScriptRuntimeError"
    /\ Unconfirmed(c.host, DisableEpel, {"0", "False"}) =>
          /\ c.end = "return"
          /\ \E w \in 1..Len(warnings) : warnings[w] = c.host

\* C12 as stated: after a call of manage_epel, a Fedora or Unknown host
\* got no command; any other host got 'yum-config-manager --enable epel'
\* when CONFIG_USE_EPEL was 'y' and '--disable epel' otherwise; unconfirmed
\* output raises ScriptRuntimeError for enable, warns and returns for
\* disable.  The install script failing before yum-config-manager runs
\* violates the enable part.
C12_EpelAsStated ==
    \A i \in CallsOf("manage_epel") :
       LET c == calls[i] IN
       /\ EpelOutcome(c)
       /\ ~NoEpelHost(c.host) =>
             IF c.flag = <<"y">>
             THEN RanCommand("manage_epel", c.host, EnableEpel)
             ELSE RanCommand("manage_epel", c.host, DisableEpel)

\* C12 amended: as stated, except that with CONFIG_USE_EPEL 'y' the enable
\* command runs only if the EPEL install script did not fail; if it failed,
\* manage_epel raises ScriptRuntimeError without running yum-config-manager.
\* The command of the other setting is never run.
C12_EpelAmended ==
    \A i \in CallsOf("manage_epel") :
       LET c == calls[i] IN
       /\ EpelOutcome(c)
       /\ ~NoEpelHost(c.host) =>
             IF c.flag = <<"y">>
             THEN /\ ~RanCommand("manage_epel", c.host, DisableEpel)
                  /\ IF EpelInstallFailed(c.host)
                     THEN /\ c.end = "ScriptRuntimeError"
                          /\ ~RanCommand("manage_epel", c.host, EnableEpel)
                     ELSE RanCommand("manage_epel", c.host, EnableEpel)
             ELSE /\ RanCommand("manage_epel", c.host, DisableEpel)
                  /\ ~RanCommand("manage_epel", c.host, EnableEpel)
                  /\ ~EpelInstallFailed(c.host)

\* manage_epel was asked to enable EPEL on a host that is not Fedora or
\* Unknown, the install script went through, the enable command ran and
\* ScriptRuntimeError was raised because the output did not confirm it
C12_Witness ==
    \E i \in CallsOf("manage_epel") :
       /\ ~NoEpelHost(calls[i].host)
       /\ calls[i].flag = <<"y">>
       /\ ~EpelInstallFailed(calls[i].host)
       /\ Unconfirmed(calls[i].host, EnableEpel, {"1", "True"})
       /\ calls[i].end = "ScriptRuntimeError"

\* ----------------- claims on manage_rdo and server_prep ----------------
\* the call at position i of the log follows a manage_rdo call for the
\* same host
AfterRdo(i) ==
    /\ i > 1
    /\ calls[i - 1].fn = "manage_rdo"
    /\ calls[i - 1].host = calls[i].host

\* what C13 says when rdo-release is not installed locally
RdoAbsent ==
    ~env.rdo_release =>
       /\ CONF["CONFIG_USE_EPEL"] = env.configured
       /\ \A i \in CallsOf("manage_rdo") :
             /\ RunsOf("manage_rdo", calls[i].host) = {}
             /\ calls[i].end = "return"

\* manage_rdo has set CONFIG_USE_EPEL to 'y' once it was called with
\* rdo-release installed
RdoOverrides ==
    env.rdo_release /\ CallsOf("manage_rdo") # {} =>
       CONF["CONFIG_USE_EPEL"] = <<"y">>

\* C13 as stated: with rdo-release installed manage_rdo sets
\* CONFIG_USE_EPEL to 'y' and manage_epel, called after it, enables EPEL on
\* that host and every later one; without it the flag is unchanged and
\* manage_rdo runs nothing on the host.  A Fedora or Unknown host, on which
\* manage_epel runs nothing, or a failing EPEL install script violates the
\* enable part.
C13_RdoAsStated ==
    /\ RdoAbsent
    /\ RdoOverrides
    /\ env.rdo_release =>
          \A i \in CallsOf("manage_epel") :
             RanCommand("manage_epel", calls[i].host, EnableEpel)

\* C13 amended: with rdo-release installed manage_rdo sets CONFIG_USE_EPEL
\* to 'y'; every manage_epel call follows the manage_rdo call of its host,
\* so on that host and every later one manage_epel sees 'y' whatever was
\* configured: it never disables EPEL, and it runs the enable command
\* unless the host is Fedora or Unknown (nothing is run) or the EPEL
\* install script fails.  Without rdo-release the flag is unchanged,
\* manage_epel sees the configured value and manage_rdo runs nothing on the
\* host.
C13_RdoAmended ==
    /\ RdoAbsent
    /\ RdoOverrides
    /\ \A i \in CallsOf("manage_epel") :
          LET c == calls[i] IN
          /\ AfterRdo(i)
          /\ c.flag = IF env.rdo_release THEN <<"y">> ELSE env.configured
          /\ env.rdo_release =>
                /\ ~RanCommand("manage_epel", c.host, DisableEpel)
                /\ IF NoEpelHost(c.host)
                   THEN RunsOf("manage_epel", c.host) = {}
                   ELSE EpelInstallFailed(c.host)
                        \/ RanCommand("manage_epel", c.host, EnableEpel)

\* the operator configured 'n', rdo-release is installed, and manage_epel
\* has run the enable command on the first host and on a later one
C13_Witness ==
    /\ env.rdo_release
    /\ env.configured = <<"n">>
    /\ \E i, j \in CallsOf("manage_epel") :
          /\ i < j
          /\ RanCommand("manage_epel", calls[i].host, EnableEpel)
          /\ RanCommand("manage_epel", calls[j].host, EnableEpel)

\* --------------------------- swift sequence ----------------------------
SwiftSteps_ProxyFirst ==
    <<"createkeystonemanifest", "createproxymanifest",
      "createbuildermanifest", "createstoragemanifest",
      "createcommonmanifest">>

\* the functions of the steps list of initSequences, in its order
SwiftSteps ==
    <<"createkeystonemanifest", "createbuildermanifest",
      "createproxymanifest", "createstoragemanifest",
      "createcommonmanifest">>

\* initSequences(controller)
initSequences ==
    /\ pc = "init"
    /\ steps' = IF CONF["CONFIG_OS_SWIFT_INSTALL"] # <<"y">>
                THEN <<>> ELSE SwiftSteps
    /\ stepIdx' = 0
    /\ pc' = "seq"
    /\ UNCHANGED <<CONF, err, ringVars, planVars, prepVars>>

\* the controller calls the function of the next registered step
run_step ==
    /\ pc = "seq"
    /\ stepIdx < Len(steps)
    /\ stepIdx' = stepIdx + 1
    /\ pc' = "idle"
    /\ UNCHANGED <<CONF, err, steps, ringVars, planVars, prepVars>>

\* the step function the controller has called
CurrentStep == IF stepIdx \in 1..Len(steps) THEN steps[stepIdx] ELSE ""

\* the step function has returned to the controller
step_return ==
    /\ \/ pc = "idle" /\ CurrentStep = "createbuildermanifest" /\ runs >= 1
       \/ pc = "done" /\ CurrentStep = "createstoragemanifest"
    /\ pc' = "seq"
    /\ UNCHANGED <<CONF, err, seqVars, ringVars, planVars, prepVars>>

\* createkeystonemanifest()
createkeystonemanifest ==
    /\ pc = "idle"
    /\ CurrentStep = "createkeystonemanifest"
    /\ CONF' = Put(CONF, "CONFIG_SWIFT_PROXY",
                   Split(CONF["CONFIG_SWIFT_PROXY_HOSTS"])[1])
    /\ manifestfile' = <<CONF["CONFIG_KEYSTONE_HOST"], "_keystone.pp">>
    /\ appended' = Append(appended,
                      [step |-> "keystone",
                       file |-> manifestfile',
                       data |-> [template |-> "keystone_swift.pp"]])
    /\ pc' = "seq"
    /\ UNCHANGED <<err, hostIter, devicename, manifestdata, runs,
                   host_counts, seqVars, planVars, prepVars>>

\* createbuildermanifest() called as a step
step_createbuildermanifest ==
    /\ CurrentStep = "createbuildermanifest"
    /\ runs = 0
    /\ createbuildermanifest_begin

\* createstoragemanifest() called as a step
step_createstoragemanifest ==
    /\ CurrentStep = "createstoragemanifest"
    /\ createstoragemanifest_count

\* CONFIG_SWIFT_PROXY_HOSTS not in CONFIG_SWIFT_STORAGE_HOSTS.split(",")
ProxyCondition(proxy, storage) ==
    proxy \notin {Split(storage)[i] : i \in 1..Len(Split(storage))}

\* createproxymanifest()
createproxymanifest ==
    /\ pc = "idle"
    /\ CurrentStep = "createproxymanifest"
    /\ manifestfile' = <<CONF["CONFIG_SWIFT_PROXY_HOSTS"], "_swift.pp">>
    /\ appended' = Append(appended,
          [step |-> "proxy",
           file |-> manifestfile',
           data |-> [template |-> "swift_proxy.pp",
                     ringsync |->
                        ProxyCondition(CONF["CONFIG_SWIFT_PROXY_HOSTS"],
                                       CONF["CONFIG_SWIFT_STORAGE_HOSTS"]),
                     ring_server |-> "%(CONFIG_SWIFT_BUILDER_HOST)s"]])
    /\ pc' = "seq"
    /\ UNCHANGED <<CONF, err, hostIter, devicename, manifestdata, runs,
                   host_counts, seqVars, planVars, prepVars>>

RECURSIVE ManifestFiles(_)
\* CONFIG_MANIFESTFILES: the files appended to, each once, in the order of
\* their first appendManifestFile call
ManifestFiles(log) ==
    IF log = <<>> THEN <<>>
    ELSE LET front == ManifestFiles(SubSeq(log, 1, Len(log) - 1))
             file  == log[Len(log)].file
         IN IF \E i \in 1..Len(front) : front[i] = file
            THEN front ELSE Append(front, file)

\* manifestfile.endswith("_swift.pp") for a file <<host, suffix>>
EndsWithSwiftPp(file) == file[2] \in {"_swift.pp", "_ring_swift.pp"}

\* createcommonmanifest()
createcommonmanifest ==
    /\ pc = "idle"
    /\ CurrentStep = "createcommonmanifest"
    /\ LET files == SelectSeq(ManifestFiles(appended), EndsWithSwiftPp) IN
         appended' = appended \o
            [i \in 1..Len(files) |->
               [step |-> "common", file |-> files[i],
                data |-> [template |-> "swift_common.pp"]]]
    /\ pc' = "seq"
    /\ UNCHANGED <<CONF, err, hostIter, devicename, manifestfile,
                   manifestdata, runs, host_counts, seqVars, planVars,
                   prepVars>>

\* the storage host lists explored when the whole sequence runs
SeqHostInputs ==
    {Join(f) : f \in UNION {[1..n -> {<<"a">>, <<"b">>, <<" ", "a">>}] :
                              n \in 1..MaxSeqHosts}}

SeqInit ==
    /\ \E install \in {<<"y">>, <<"n">>}, hosts \in SeqHostInputs,
          zones \in {<<"0">>, <<"1">>, <<"2">>},
          proxy \in {<<"a">>, <<"c">>} :
         CONF = [k \in {"CONFIG_OS_SWIFT_INSTALL", "CONFIG_KEYSTONE_HOST",
                        "CONFIG_SWIFT_PROXY_HOSTS",
                        "CONFIG_SWIFT_STORAGE_HOSTS",
                        "CONFIG_SWIFT_STORAGE_ZONES"} |->
                 CASE k = "CONFIG_OS_SWIFT_INSTALL" -> install
                   [] k = "CONFIG_KEYSTONE_HOST" -> <<"k">>
                   [] k = "CONFIG_SWIFT_PROXY_HOSTS" -> proxy
                   [] k = "CONFIG_SWIFT_STORAGE_HOSTS" -> hosts
                   [] k = "CONFIG_SWIFT_STORAGE_ZONES" -> zones]
    /\ pc = "init"
    /\ steps = <<>>
    /\ stepIdx = 0
    /\ hostIter = <<>>
    /\ devicename = 0
    /\ manifestfile = <<>>
    /\ manifestdata = <<>>
    /\ appended = <<>>
    /\ err = ""
    /\ runs = 0
    /\ host_counts = EmptyDict
    /\ platform = [all_in_one |-> FALSE, rhel |-> FALSE]
    /\ groups = <<>>
    /\ gidx = 0
    /\ plan = <<>>
    /\ collected = <<>>
    /\ args = NoArgs
    /\ server = <<>>
    /\ executed = <<>>
    /\ warnings = <<>>
    /\ hostIdx = 0
    /\ env = NoArgs
    /\ calls = <<>>

SeqNext ==
    \/ initSequences
    \/ run_step
    \/ step_return
    \/ createkeystonemanifest
    \/ step_createbuildermanifest
    \/ createbuildermanifest_loop
    \/ createbuildermanifest_end
    \/ createproxymanifest
    \/ step_createstoragemanifest
    \/ createstoragemanifest_loop
    \/ createstoragemanifest_end
    \/ createcommonmanifest

SeqSpec == SeqInit /\ [][SeqNext]_vars

\* ----------------------- claims on the swift sequence ------------------
\* positions in the log of appendManifestFile calls made by a step
EntriesOf(step) == {i \in 1..Len(appended) : appended[i].step = step}

\* C14: the five steps are registered exactly when CONFIG_OS_SWIFT_INSTALL
\* is 'y', in the order keystone, builder, proxy, storage, common; every
\* storage manifest comes after the ring-builder manifest, and the proxy
\* manifest is written only after createbuildermanifest has written
\* CONFIG_SWIFT_BUILDER_HOST and its manifest.
C14_StepOrder ==
    /\ pc # "init" =>
          steps = IF CONF["CONFIG_OS_SWIFT_INSTALL"] = <<"y">>
                  THEN <<"createkeystonemanifest", "createbuildermanifest",
                         "createproxymanifest", "createstoragemanifest",
                         "createcommonmanifest">>
                  ELSE <<>>
    /\ CONF["CONFIG_OS_SWIFT_INSTALL"] # <<"y">> => appended = <<>>
    /\ \A i \in EntriesOf("storage") :
          \E j \in EntriesOf("builder") : j < i
    /\ \A i \in EntriesOf("proxy") :
          /\ "CONFIG_SWIFT_BUILDER_HOST" \in DOMAIN CONF
          /\ \E j \in EntriesOf("builder") : j < i

\* the whole sequence has run: all five steps returned, the proxy manifest
\* carries the ringsync text and storage manifests were written
C14_Witness ==
    /\ pc = "seq"
    /\ stepIdx = 5
    /\ \E i \in EntriesOf("proxy") : appended[i].data.ringsync
    /\ EntriesOf("storage") # {}
    /\ EntriesOf("common") # {}

\* the hosts createstoragemanifest writes a storage manifest for
StorageServers ==
    DOMAIN CountHosts(Split(CONF["CONFIG_SWIFT_STORAGE_HOSTS"]), EmptyDict)

\* C15: the proxy manifest carries swift::ringsync exactly when the proxy
\* host is not one of the storage servers.  Fails for a storage host
\* written with white space around it, which createstoragemanifest strips
\* and createproxymanifest does not.
C15_RingsyncIffNotStorage ==
    \A i \in EntriesOf("proxy") :
       appended[i].data.ringsync <=>
          CONF["CONFIG_SWIFT_PROXY_HOSTS"] \notin StorageServers

=============================================================================
